---------------------------- MODULE Spec2Model ----------------------------
(***************************************************************************)
(* Apnea training tables: the table generators (src/src/lib/tables.ts) and *)
(* the two revisions of the TrainingController component:                  *)
(*   "two"   - src/unnamed/part_002, phases ready/prep/hold/finished       *)
(*   "three" - src/unnamed/part_003, phases prep/hold/recovery/finished    *)
(*                                                                         *)
(* React is modelled commit by commit.  A state of the model is a          *)
(* committed render whose passive effects (useEffect) have run.  An event  *)
(* handler batches its setState calls, the component renders once, and the *)
(* effects whose dependencies changed run in source order (all cleanups    *)
(* first).  setState calls made by the effects are queued in `pending`     *)
(* and committed by the next Rerender step.  React drains its own work     *)
(* before the browser delivers another timer or user event, so timers and  *)
(* handlers only run when `pending` is empty.                              *)
(***************************************************************************)
EXTENDS Integers, Sequences, FiniteSets, TLC

VARIABLES
    variant,            \* which controller revision is mounted
    tableType,          \* useState 'co2' | 'o2'
    tableData,          \* useState TrainingRound[] | null
    isSessionActive,    \* useState boolean
    currentRoundIndex,  \* useState number (0-based)
    currentPhase,       \* useState phase
    timeRemaining,      \* useState number
    showStopModal,      \* useState boolean
    showAlert,          \* useState boolean (two-phase only)
    timers,             \* pending setTimeout callbacks: [h: handle, t: closure timeRemaining]
    timerId,            \* timerId.current: handle of a pending timer, 0 when null or stale
    pending,            \* state queued by setState calls of the last effects pass (<<>> or <<s>>)
    startAwaiting,      \* startSession calls suspended at `await Tone.start()` (two-phase)
    cues,               \* cue requests emitted by the last step, in order
    ticks,              \* history: timer callbacks run since the session was started
    zeroEvents,         \* history: times timeRemaining was brought to 0 while active, since start
    advances,           \* history: advancePhase calls on a bound table since start
    lastEvent,          \* history: the handler / callback of the last step
    lastInput,          \* history: the personal best the last step submitted, 0 if none
    tickCues,           \* history: tick cues emitted since the current phase of the current round began
    startCues,          \* history: phase-start cues emitted since the session was started
    endCues,            \* history: end-of-phase cues emitted since the session was started
    entered,            \* history: phases (prep, hold, recovery) entered since the session was started
    pre                 \* history: session state before the last step

vars == <<variant, tableType, tableData, isSessionActive, currentRoundIndex,
          currentPhase, timeRemaining, showStopModal, showAlert, timers, timerId,
          pending, startAwaiting, cues, ticks, zeroEvents, advances, lastEvent,
          lastInput, tickCues, startCues, endCues, entered, pre>>

----------------------------------------------------------------------------
(* Bounds of the model *)

PBCount == 3
PBStep == 30
MaxStartAwaiting == 1
MaxRounds3 == 2
MaxDur3 == 2
MaxGenPB == 620

(* Program constants *)

NUM_ROUNDS == 8
MinPB == 30
MaxPB == 600
MinPBO2 == 60
Undefined == -1

NoTable == << >>

Max(a, b) == IF a >= b THEN a ELSE b

----------------------------------------------------------------------------
(* Table generators, src/src/lib/tables.ts *)

\* Math.round(pb * 0.60): pb * 0.6 is never within 0.1 of a half for integer pb
RoundSixTenths(pb) == (6 * pb + 5) \div 10

\* Math.round(pb * 0.5): halves round up
RoundHalf(pb) == (pb + 1) \div 2

\* Mutant of generateCo2Table: the decrease is applied from the first round on
generateCo2Table_DecreasesEarly(pb) ==
    LET holdTime == Max(30, RoundSixTenths(pb))
        startPrepTime == holdTime + 75
        decreaseStep == 15
    IN  [i \in 1..NUM_ROUNDS |->
            [round |-> i,
             prep  |-> Max(30, startPrepTime - (i * decreaseStep)),
             hold  |-> holdTime]]

generateCo2Table(pb) ==
    LET holdTime == Max(30, RoundSixTenths(pb))
        startPrepTime == holdTime + 75
        decreaseStep == 15
    IN  [i \in 1..NUM_ROUNDS |->
            [round |-> i,
             prep  |-> Max(30, startPrepTime - ((i - 1) * decreaseStep)),
             hold  |-> holdTime]]

\* Mutant of generateO2Table: the loop counts from 0
generateO2Table_ZeroBased(pb) ==
    LET startHoldTime == Max(45, RoundHalf(pb))
        recoveryTime == 120
        holdIncrement == 10
    IN  [i \in 1..NUM_ROUNDS |->
            [round |-> i - 1,
             prep  |-> recoveryTime,
             hold  |-> startHoldTime + ((i - 2) * holdIncrement)]]

\* Mutant of generateO2Table: the half of an odd personal best is truncated
generateO2Table_Truncates(pb) ==
    LET startHoldTime == Max(45, pb \div 2)
        recoveryTime == 120
        holdIncrement == 10
    IN  [i \in 1..NUM_ROUNDS |->
            [round |-> i,
             prep  |-> recoveryTime,
             hold  |-> startHoldTime + ((i - 1) * holdIncrement)]]

generateO2Table(pb) ==
    LET startHoldTime == Max(45, RoundHalf(pb))
        recoveryTime == 120
        holdIncrement == 10
    IN  [i \in 1..NUM_ROUNDS |->
            [round |-> i,
             prep  |-> recoveryTime,
             hold  |-> startHoldTime + ((i - 1) * holdIncrement)]]

\* Personal bests the zod schema of the two-phase controller accepts
PersonalBests == {pb \in {MinPB + k * PBStep : k \in 0..(PBCount - 1)} : pb <= MaxPB}

\* What the user may type into the form: also a value below and one above the
\* schema's range
FormInputs == PersonalBests \cup {MinPB - 1, MaxPB + 1}

\* Tables of the three-phase controller: rounds carry a recovery duration, and a
\* recovery of 0 marks the round the table finishes on ('Finish' in the table view).
\* n rounds; round i has prep p, hold h + (i - 1), recovery r, except round m whose
\* recovery is 0 (m = 0: no such round).
Table3(n, p, h, r, m) ==
    [i \in 1..n |->
        [round |-> i, prep |-> p, hold |-> h + (i - 1),
         recovery |-> IF i = m THEN 0 ELSE r]]

Tables3 ==
    {Table3(n, p, h, r, m) :
        n \in 1..MaxRounds3, p \in 0..MaxDur3, h \in 0..MaxDur3,
        r \in 0..MaxDur3, m \in 0..MaxRounds3}

----------------------------------------------------------------------------
(* Component state as a record, and the environment threaded through a render *)

S == [tableType |-> tableType, tableData |-> tableData,
      isSessionActive |-> isSessionActive,
      currentRoundIndex |-> currentRoundIndex,
      currentPhase |-> currentPhase, timeRemaining |-> timeRemaining,
      showStopModal |-> showStopModal, showAlert |-> showAlert]

\* What a handler or an effects pass works on.  q: the state its setState calls
\* lead to; timers, timerId: the timeouts and the ref; cues: the cue requests
\* made; adv, zero: increments of the history counters; input: the form data
\* the handler was called with (0: none).
Env == [q |-> S, timers |-> timers, timerId |-> timerId, cues |-> << >>,
        adv |-> 0, zero |-> 0, input |-> 0]

Handles(ts) == {x.h : x \in ts}

FreshHandle(ts) ==
    CHOOSE n \in 1..(Cardinality(ts) + 1) :
        n \notin Handles(ts) /\ \A m \in 1..(n - 1) : m \in Handles(ts)

\* Mutant of ClearTimeout: the timeout is not cancelled
ClearTimeout_NotCancelled(e) == e

\* if (timerId.current) clearTimeout(timerId.current)
ClearTimeout(e) ==
    [e EXCEPT !.timers = {x \in @ : x.h # e.timerId}, !.timerId = 0]

\* timerId.current = setTimeout(callback closing over timeRemaining = t, 1000)
SetTimeout(e, t) ==
    LET h == FreshHandle(e.timers)
    IN  [e EXCEPT !.timers = @ \cup {[h |-> h, t |-> t]}, !.timerId = h]

Cue(e, kind) == [e EXCEPT !.cues = Append(@, kind)]

\* setTimeRemaining(d) queued while the session is active
LoadTime(e, d) ==
    [e EXCEPT !.q.timeRemaining = d,
              !.zero = IF d = 0 THEN @ + 1 ELSE @]

RoundAt(table, index) ==
    IF index >= 0 /\ index < Len(table) THEN <<table[index + 1]>> ELSE << >>


----------------------------------------------------------------------------
(* Two-phase controller, src/unnamed/part_002 *)

\* Mutant of AdvancePhase2: the last round is tested as index = length
AdvancePhase2_LastOffByOne(s, q) ==
    IF s.tableData = NoTable THEN q
    ELSE IF s.currentPhase = "hold" THEN
        IF s.currentRoundIndex = Len(s.tableData)
        THEN [q EXCEPT !.currentPhase = "finished", !.isSessionActive = FALSE]
        ELSE [q EXCEPT !.currentPhase = "prep",
                       !.currentRoundIndex = @ + 1]
    ELSE IF s.currentPhase = "prep" THEN [q EXCEPT !.currentPhase = "hold"]
    ELSE q

\* Mutant of AdvancePhase2: finishing leaves the session active
AdvancePhase2_StaysActive(s, q) ==
    IF s.tableData = NoTable THEN q
    ELSE IF s.currentPhase = "hold" THEN
        IF s.currentRoundIndex = Len(s.tableData) - 1
        THEN [q EXCEPT !.currentPhase = "finished"]
        ELSE [q EXCEPT !.currentPhase = "prep",
                       !.currentRoundIndex = @ + 1]
    ELSE IF s.currentPhase = "prep" THEN [q EXCEPT !.currentPhase = "hold"]
    ELSE q

\* advancePhase: s is the render the callback closes over, q the queued state
AdvancePhase2(s, q) ==
    IF s.tableData = NoTable THEN q
    ELSE IF s.currentPhase = "hold" THEN
        IF s.currentRoundIndex = Len(s.tableData) - 1
        THEN [q EXCEPT !.currentPhase = "finished", !.isSessionActive = FALSE]
        ELSE [q EXCEPT !.currentPhase = "prep",
                       !.currentRoundIndex = @ + 1]
    ELSE IF s.currentPhase = "prep" THEN [q EXCEPT !.currentPhase = "hold"]
    ELSE q

\* useEffect(..., [isSessionActive, currentPhase, currentRoundIndex, tableData])
PhaseLoadEffect2(s, e) ==
    IF \/ ~s.isSessionActive
       \/ s.tableData = NoTable
       \/ s.currentPhase \in {"ready", "finished"}
    THEN ClearTimeout(e)
    ELSE LET round == RoundAt(s.tableData, s.currentRoundIndex)
         IN  IF round = << >>
             THEN [e EXCEPT !.q.isSessionActive = FALSE,
                            !.q.currentPhase = "finished"]
             ELSE LET duration == IF s.currentPhase = "prep"
                                  THEN round[1].prep ELSE round[1].hold
                  IN  Cue(LoadTime(e, duration), "start")

\* useEffect(..., [isSessionActive, timeRemaining, advancePhase]), body
CountdownEffect2(s, e) ==
    IF ~s.isSessionActive \/ s.timeRemaining <= 0
    THEN LET e1 == IF s.timeRemaining = 0 /\ s.isSessionActive
                   THEN [Cue(e, "end") EXCEPT
                            !.q = AdvancePhase2(s, @),
                            !.adv = IF s.tableData = NoTable THEN @ ELSE @ + 1]
                   ELSE e
         IN  ClearTimeout(e1)
    ELSE SetTimeout(e, s.timeRemaining)

\* Mutant of CountdownCleanup: the effect returns no cleanup
CountdownCleanup_Missing(e) == e

\* the cleanup the countdown effect returned: clearTimeout(timerId.current)
CountdownCleanup(e) == ClearTimeout(e)

\* One effects pass after committing s over p.  tdChanged: tableData is a new
\* reference.  advancePhase is a useCallback over [currentPhase,
\* currentRoundIndex, tableData].  Cleanups run before any effect body.
Effects2(p, s, tdChanged, e) ==
    LET advChanged == \/ tdChanged
                      \/ p.currentPhase # s.currentPhase
                      \/ p.currentRoundIndex # s.currentRoundIndex
        loadRuns == advChanged \/ p.isSessionActive # s.isSessionActive
        countRuns == \/ advChanged
                     \/ p.isSessionActive # s.isSessionActive
                     \/ p.timeRemaining # s.timeRemaining
        a == IF countRuns THEN CountdownCleanup(e) ELSE e
        b == IF loadRuns THEN PhaseLoadEffect2(s, a) ELSE a
    IN  IF countRuns THEN CountdownEffect2(s, b) ELSE b

\* Mutant of resetSessionState2: timeRemaining is not reset
resetSessionState2_KeepsTime(e) ==
    ClearTimeout([e EXCEPT !.q.isSessionActive = FALSE,
                           !.q.currentRoundIndex = 0,
                           !.q.currentPhase = "ready"])

\* resetSessionState
resetSessionState2(e) ==
    ClearTimeout([e EXCEPT !.q.isSessionActive = FALSE,
                           !.q.currentRoundIndex = 0,
                           !.q.currentPhase = "ready",
                           !.q.timeRemaining = 0])


----------------------------------------------------------------------------
(* Three-phase controller, src/unnamed/part_003 *)

\* a JavaScript number, as opposed to undefined / NaN
IsNumber(x) == x # Undefined

\* nextRound[nextPhase]
PhaseDuration(round, phase) ==
    CASE phase = "prep" -> round.prep
      [] phase = "hold" -> round.hold
      [] phase = "recovery" -> round.recovery
      [] OTHER -> Undefined

\* Mutant of AdvancePhase3: recovery returns to prep of the same round
AdvancePhase3_KeepsRound(s, e) ==
    IF s.tableData = NoTable THEN e
    ELSE LET nextPhase == CASE s.currentPhase = "prep" -> "hold"
                            [] s.currentPhase = "hold" -> "recovery"
                            [] s.currentPhase = "recovery" -> "prep"
                            [] OTHER -> s.currentPhase
             nextRoundIndex == s.currentRoundIndex
         IN  IF \/ nextRoundIndex >= Len(s.tableData)
                \/ /\ s.tableData[nextRoundIndex + 1].recovery = 0
                   /\ s.currentPhase = "hold"
             THEN [e EXCEPT !.q.isSessionActive = FALSE,
                            !.q.currentPhase = "finished"]
             ELSE LET nextDuration ==
                        PhaseDuration(s.tableData[nextRoundIndex + 1], nextPhase)
                      e1 == [e EXCEPT !.q.currentPhase = nextPhase,
                                      !.q.currentRoundIndex = nextRoundIndex]
                  IN  Cue(LoadTime(e1, nextDuration), "start")

\* Mutant of AdvancePhase3: a recovery value of 0 is not taken as the finish marker
AdvancePhase3_NoMarker(s, e) ==
    IF s.tableData = NoTable THEN e
    ELSE LET nextPhase == CASE s.currentPhase = "prep" -> "hold"
                            [] s.currentPhase = "hold" -> "recovery"
                            [] s.currentPhase = "recovery" -> "prep"
                            [] OTHER -> s.currentPhase
             nextRoundIndex == IF s.currentPhase = "recovery"
                               THEN s.currentRoundIndex + 1
                               ELSE s.currentRoundIndex
         IN  IF nextRoundIndex >= Len(s.tableData)
             THEN [e EXCEPT !.q.isSessionActive = FALSE,
                            !.q.currentPhase = "finished"]
             ELSE LET nextDuration ==
                        PhaseDuration(s.tableData[nextRoundIndex + 1], nextPhase)
                      e1 == [e EXCEPT !.q.currentPhase = nextPhase,
                                      !.q.currentRoundIndex = nextRoundIndex]
                  IN  Cue(LoadTime(e1, nextDuration), "start")

\* Mutant of AdvancePhase3: finishing leaves the session active
AdvancePhase3_StaysActive(s, e) ==
    IF s.tableData = NoTable THEN e
    ELSE LET nextPhase == CASE s.currentPhase = "prep" -> "hold"
                            [] s.currentPhase = "hold" -> "recovery"
                            [] s.currentPhase = "recovery" -> "prep"
                            [] OTHER -> s.currentPhase
             nextRoundIndex == IF s.currentPhase = "recovery"
                               THEN s.currentRoundIndex + 1
                               ELSE s.currentRoundIndex
         IN  IF \/ nextRoundIndex >= Len(s.tableData)
                \/ /\ s.tableData[nextRoundIndex + 1].recovery = 0
                   /\ s.currentPhase = "hold"
             THEN [e EXCEPT !.q.currentPhase = "finished"]
             ELSE LET nextDuration ==
                        PhaseDuration(s.tableData[nextRoundIndex + 1], nextPhase)
                      e1 == [e EXCEPT !.q.currentPhase = nextPhase,
                                      !.q.currentRoundIndex = nextRoundIndex]
                  IN  Cue(LoadTime(e1, nextDuration), "start")

\* advancePhase: s is the render the callback closes over
AdvancePhase3(s, e) ==
    IF s.tableData = NoTable THEN e
    ELSE LET nextPhase == CASE s.currentPhase = "prep" -> "hold"
                            [] s.currentPhase = "hold" -> "recovery"
                            [] s.currentPhase = "recovery" -> "prep"
                            [] OTHER -> s.currentPhase
             nextRoundIndex == IF s.currentPhase = "recovery"
                               THEN s.currentRoundIndex + 1
                               ELSE s.currentRoundIndex
         IN  IF \/ nextRoundIndex >= Len(s.tableData)
                \/ /\ s.tableData[nextRoundIndex + 1].recovery = 0
                   /\ s.currentPhase = "hold"
             THEN [e EXCEPT !.q.isSessionActive = FALSE,
                            !.q.currentPhase = "finished"]
             ELSE LET nextDuration ==
                        PhaseDuration(s.tableData[nextRoundIndex + 1], nextPhase)
                      e1 == [e EXCEPT !.q.currentPhase = nextPhase,
                                      !.q.currentRoundIndex = nextRoundIndex]
                  IN  Cue(LoadTime(e1, nextDuration), "start")

\* useEffect(..., [isSessionActive, timeRemaining, advancePhase, playEndSound])
BoundaryEffect3(s, e) ==
    IF s.isSessionActive /\ s.timeRemaining = 0
    THEN AdvancePhase3(s, [Cue(e, "end") EXCEPT
                                !.adv = IF s.tableData = NoTable THEN @ ELSE @ + 1])
    ELSE e

\* Mutant of CountdownEffect3: the last second is not armed
CountdownEffect3_StopsAtOne(s, e) ==
    IF ~s.isSessionActive \/ (IsNumber(s.timeRemaining) /\ s.timeRemaining <= 1)
    THEN ClearTimeout(e)
    ELSE SetTimeout(e, s.timeRemaining)

\* useEffect(..., [isSessionActive, timeRemaining, playTickSound]), body
CountdownEffect3(s, e) ==
    IF ~s.isSessionActive \/ (IsNumber(s.timeRemaining) /\ s.timeRemaining <= 0)
    THEN ClearTimeout(e)
    ELSE SetTimeout(e, s.timeRemaining)

\* One effects pass after committing s.  playEndSound and playTickSound are new
\* functions in every render, so both effects run after every render.
Effects3(s, e) ==
    CountdownEffect3(s, BoundaryEffect3(s, CountdownCleanup(e)))

----------------------------------------------------------------------------
(* Rendering *)

Snapshot ==
    [isSessionActive |-> isSessionActive, currentPhase |-> currentPhase,
     table |-> tableData # NoTable, armed |-> Cardinality(timers)]

Effects(p, tdChanged, e) ==
    IF variant = "two" THEN Effects2(p, e.q, tdChanged, e) ELSE Effects3(e.q, e)

\* the tick cues among the cue requests cs
TickCount(cs) == Cardinality({k \in DOMAIN cs : cs[k] = "tick"})

\* the cues of one kind among the cue requests cs
CueCount(cs, kind) == Cardinality({k \in DOMAIN cs : cs[k] = kind})

\* e is what the handler left: e.q the state after its batched setState calls,
\* and what it did outside React state (timers, cues).  React renders when the
\* state changed, commits e.q and runs the effects, whose own setState calls
\* stay queued in `pending`.  restart: the handler starts or resets the session
\* (the history counters restart); tk: 1 for a timer callback.
Commit(tdChanged, e, event, restart, tk) ==
    LET s == e.q
        rendered == s # S \/ tdChanged
        f == IF rendered THEN Effects(S, tdChanged, e) ELSE e
    IN  /\ tableType' = s.tableType
        /\ tableData' = s.tableData
        /\ isSessionActive' = s.isSessionActive
        /\ currentRoundIndex' = s.currentRoundIndex
        /\ currentPhase' = s.currentPhase
        /\ timeRemaining' = s.timeRemaining
        /\ showStopModal' = s.showStopModal
        /\ showAlert' = s.showAlert
        /\ timers' = f.timers
        /\ timerId' = f.timerId
        /\ pending' = IF f.q = s THEN << >> ELSE <<f.q>>
        /\ cues' = f.cues
        /\ ticks' = IF restart THEN 0 ELSE ticks + tk
        /\ zeroEvents' = (IF restart THEN 0 ELSE zeroEvents) + f.zero
        /\ advances' = (IF restart THEN 0 ELSE advances) + f.adv
        /\ lastEvent' = event
        /\ lastInput' = e.input
        /\ startCues' = (IF restart THEN 0 ELSE startCues) + CueCount(f.cues, "start")
        /\ endCues' = (IF restart THEN 0 ELSE endCues) + CueCount(f.cues, "end")
        /\ entered' = (IF restart THEN 0 ELSE entered) +
                (IF /\ s.isSessionActive
                    /\ s.currentPhase \in {"prep", "hold", "recovery"}
                    /\ \/ event = "start"
                       \/ s.currentPhase # currentPhase
                       \/ s.currentRoundIndex # currentRoundIndex
                 THEN 1 ELSE 0)
        /\ tickCues' = IF \/ restart
                          \/ s.currentPhase # currentPhase
                          \/ s.currentRoundIndex # currentRoundIndex
                       THEN 0 ELSE tickCues + TickCount(f.cues)
        /\ pre' = Snapshot
        /\ UNCHANGED variant

Idle == pending = << >>

\* React commits the state queued by the effects of the previous commit
Rerender ==
    /\ pending # << >>
    /\ Commit(FALSE, [Env EXCEPT !.q = pending[1]], "render", FALSE, 0)
    /\ UNCHANGED startAwaiting

\* The callback of timeout x runs: x is no longer pending, the tick cue is
\* requested when the closure's timeRemaining is in 2..4
Fired(e, x) ==
    LET e0 == [e EXCEPT !.timers = @ \ {x},
                        !.timerId = IF @ = x.h THEN 0 ELSE @,
                        !.zero = IF e.q.timeRemaining = 0 /\ e.q.isSessionActive
                                 THEN 1 ELSE 0]
    IN  IF x.t > 1 /\ x.t <= 4 THEN Cue(e0, "tick") ELSE e0

----------------------------------------------------------------------------
(* Two-phase controller: what the rendered view lets the user do *)

MainView2 == currentPhase # "finished"
Interactive2 == MainView2 /\ ~showStopModal /\ ~showAlert

\* Mutant of TimerFire2: the callback takes two seconds off
TimerFire2_TwoSeconds ==
    /\ variant = "two" /\ Idle
    /\ \E x \in timers :
        Commit(FALSE, Fired([Env EXCEPT !.q.timeRemaining = @ - 2], x),
               "tick", FALSE, 1)
    /\ UNCHANGED startAwaiting

\* setTimeout callback of the countdown effect: setTimeRemaining(t => t - 1)
TimerFire2 ==
    /\ variant = "two" /\ Idle
    /\ \E x \in timers :
        Commit(FALSE, Fired([Env EXCEPT !.q.timeRemaining = @ - 1], x),
               "tick", FALSE, 1)
    /\ UNCHANGED startAwaiting

\* Mutant of onSubmit2: a personal best below the O2 minimum is clamped and used
onSubmit2_Clamps ==
    /\ variant = "two" /\ Idle /\ Interactive2 /\ ~isSessionActive
    /\ \E pb \in FormInputs :
        LET in == [Env EXCEPT !.input = pb]
        IN  IF pb < MinPB \/ pb > MaxPB
            THEN Commit(FALSE, in, "invalid", FALSE, 0)
            ELSE LET newTable == IF tableType = "co2" THEN generateCo2Table(pb)
                                 ELSE generateO2Table(Max(MinPBO2, pb))
                 IN  Commit(TRUE,
                            resetSessionState2([in EXCEPT !.q.tableData = newTable]),
                            "submit", TRUE, 0)
    /\ UNCHANGED startAwaiting

\* Submitting the form.  form.handleSubmit runs the zod schema first: outside
\* MinPB..MaxPB it shows the field's message and does not call onSubmit.
\* onSubmit then rejects with the alert, or generates the table and resets.
onSubmit2 ==
    /\ variant = "two" /\ Idle /\ Interactive2 /\ ~isSessionActive
    /\ \E pb \in FormInputs :
        LET in == [Env EXCEPT !.input = pb]
        IN  IF pb < MinPB \/ pb > MaxPB
            THEN Commit(FALSE, in, "invalid", FALSE, 0)
            ELSE IF \/ (tableType = "co2" /\ pb < MinPB)
                    \/ (tableType = "o2" /\ pb < MinPBO2)
            THEN Commit(FALSE, [in EXCEPT !.q.showAlert = TRUE],
                        "reject", FALSE, 0)
            ELSE LET newTable == IF tableType = "co2" THEN generateCo2Table(pb)
                                 ELSE generateO2Table(pb)
                 IN  Commit(TRUE,
                            resetSessionState2([in EXCEPT !.q.tableData = newTable]),
                            "submit", TRUE, 0)
    /\ UNCHANGED startAwaiting

\* OK button of the validation alert
AlertOk2 ==
    /\ variant = "two" /\ Idle /\ MainView2 /\ showAlert
    /\ Commit(FALSE, [Env EXCEPT !.q.showAlert = FALSE], "alertOk", FALSE, 0)
    /\ UNCHANGED startAwaiting

\* Mutant of startSession2: the table check is missing
startSession2_NoTableCheck ==
    /\ variant = "two" /\ Idle /\ Interactive2 /\ ~isSessionActive
    /\ startAwaiting < MaxStartAwaiting
    /\ startAwaiting' = startAwaiting + 1
    /\ Commit(FALSE, Env,
              IF tableData = NoTable THEN "startNoTable" ELSE "startClick",
              FALSE, 0)

\* startSession up to `await Tone.start()`.  With no table bound the handler
\* returns at once; otherwise it suspends at the await.  Neither branch calls
\* setState, so nothing renders.  (The start panel is rendered only with a
\* table bound; the first branch is the handler's own guard.)
startSession2 ==
    /\ variant = "two" /\ Idle /\ Interactive2 /\ ~isSessionActive
    /\ \/ /\ tableData = NoTable
          /\ UNCHANGED startAwaiting
          /\ Commit(FALSE, Env, "startNoTable", FALSE, 0)
       \/ /\ tableData # NoTable
          /\ startAwaiting < MaxStartAwaiting
          /\ startAwaiting' = startAwaiting + 1
          /\ Commit(FALSE, Env, "startClick", FALSE, 0)

\* startSession after the await: activate
startSessionResume2 ==
    /\ variant = "two" /\ Idle
    /\ startAwaiting > 0
    /\ startAwaiting' = startAwaiting - 1
    /\ Commit(FALSE,
              [Env EXCEPT !.q.isSessionActive = TRUE,
                          !.q.currentRoundIndex = 0,
                          !.q.currentPhase = "prep"],
              "start", TRUE, 0)

\* STOP SESSION button: setShowStopModal(true)
OpenStopModal2 ==
    /\ variant = "two" /\ Idle /\ Interactive2 /\ isSessionActive
    /\ Commit(FALSE, [Env EXCEPT !.q.showStopModal = TRUE], "openStop", FALSE, 0)
    /\ UNCHANGED startAwaiting

\* Cancel button of the stop dialog
CancelStop2 ==
    /\ variant = "two" /\ Idle /\ MainView2 /\ showStopModal
    /\ Commit(FALSE, [Env EXCEPT !.q.showStopModal = FALSE], "cancelStop", FALSE, 0)
    /\ UNCHANGED startAwaiting

\* stopSession: Confirm Stop in the dialog, or Start New Session when finished
stopSession2 ==
    /\ variant = "two" /\ Idle
    /\ \/ MainView2 /\ showStopModal
       \/ ~MainView2
    /\ LET e1 == resetSessionState2([Env EXCEPT !.q.isSessionActive = FALSE,
                                                !.q.showStopModal = FALSE])
       IN  Commit(tableData # NoTable, [e1 EXCEPT !.q.tableData = NoTable],
                  "stop", TRUE, 0)
    /\ UNCHANGED startAwaiting

\* Mutant of handleTabChange2: the table binding is kept
handleTabChange2_KeepsTable ==
    /\ variant = "two" /\ Idle /\ Interactive2
    /\ \E v \in {"co2", "o2"} :
        /\ v # tableType
        /\ Commit(FALSE, resetSessionState2([Env EXCEPT !.q.tableType = v]),
                  "tab", TRUE, 0)
    /\ UNCHANGED startAwaiting

\* handleTabChange: the tabs are rendered above both the setup and session views
handleTabChange2 ==
    /\ variant = "two" /\ Idle /\ Interactive2
    /\ \E v \in {"co2", "o2"} :
        /\ v # tableType
        /\ Commit(tableData # NoTable,
                  resetSessionState2([Env EXCEPT !.q.tableType = v,
                                                 !.q.tableData = NoTable]),
                  "tab", TRUE, 0)
    /\ UNCHANGED startAwaiting

----------------------------------------------------------------------------
(* Three-phase controller: what the rendered view lets the user do *)

isFinished3 ==
    ~isSessionActive /\ currentPhase = "finished" /\ tableData # NoTable
MainView3 == ~isFinished3
Interactive3 == MainView3 /\ ~showStopModal

\* setTimeout callback of the countdown effect:
\* setTimeRemaining(timeRemaining - 1) with the closure's timeRemaining
TimerFire3 ==
    /\ variant = "three" /\ Idle
    /\ \E x \in timers :
        Commit(FALSE,
               Fired([Env EXCEPT !.q.timeRemaining =
                            IF IsNumber(x.t) THEN x.t - 1 ELSE Undefined], x),
               "tick", FALSE, 1)
    /\ UNCHANGED startAwaiting

\* onSubmit: the form is part of the setup view
onSubmit3 ==
    /\ variant = "three" /\ Idle /\ Interactive3 /\ ~isSessionActive
    /\ \E newTable \in Tables3 :
        Commit(TRUE,
               [Env EXCEPT !.q.tableData = newTable,
                           !.q.isSessionActive = FALSE,
                           !.q.currentRoundIndex = 0,
                           !.q.currentPhase = "prep"],
               "submit", TRUE, 0)
    /\ UNCHANGED startAwaiting

\* startSession: returns at once when no table is bound
startSession3 ==
    /\ variant = "three" /\ Idle /\ Interactive3 /\ ~isSessionActive
    /\ IF tableData = NoTable
       THEN Commit(FALSE, Env, "startNoTable", FALSE, 0)
       ELSE LET e1 == [Env EXCEPT !.q.isSessionActive = TRUE,
                                  !.q.currentRoundIndex = 0,
                                  !.q.currentPhase = "prep"]
            IN  Commit(FALSE, Cue(LoadTime(e1, tableData[1].prep), "start"),
                       "start", TRUE, 0)
    /\ UNCHANGED startAwaiting

\* Stop Session button: setShowStopModal(true)
OpenStopModal3 ==
    /\ variant = "three" /\ Idle /\ Interactive3 /\ isSessionActive
    /\ Commit(FALSE, [Env EXCEPT !.q.showStopModal = TRUE], "openStop", FALSE, 0)
    /\ UNCHANGED startAwaiting

\* Cancel button of the stop dialog
CancelStop3 ==
    /\ variant = "three" /\ Idle /\ MainView3 /\ showStopModal
    /\ Commit(FALSE, [Env EXCEPT !.q.showStopModal = FALSE], "cancelStop", FALSE, 0)
    /\ UNCHANGED startAwaiting

\* Mutant of stopSession3: the table is cleared as well
stopSession3_ClearsTable ==
    /\ variant = "three" /\ Idle /\ MainView3 /\ showStopModal
    /\ LET e1 == ClearTimeout([Env EXCEPT !.q.isSessionActive = FALSE,
                                          !.q.showStopModal = FALSE])
       IN  Commit(tableData # NoTable,
                  [e1 EXCEPT !.q.currentRoundIndex = 0,
                             !.q.currentPhase = "prep",
                             !.q.timeRemaining = 0,
                             !.q.tableData = NoTable],
                  "stop", TRUE, 0)
    /\ UNCHANGED startAwaiting

\* stopSession, through confirmStopSession
stopSession3 ==
    /\ variant = "three" /\ Idle /\ MainView3 /\ showStopModal
    /\ LET e1 == ClearTimeout([Env EXCEPT !.q.isSessionActive = FALSE,
                                          !.q.showStopModal = FALSE])
       IN  Commit(FALSE,
                  [e1 EXCEPT !.q.currentRoundIndex = 0,
                             !.q.currentPhase = "prep",
                             !.q.timeRemaining = 0],
                  "stop", TRUE, 0)
    /\ UNCHANGED startAwaiting

\* onValueChange of the tabs in the setup view
onValueChange3 ==
    /\ variant = "three" /\ Idle /\ Interactive3 /\ ~isSessionActive
    /\ \E v \in {"co2", "o2"} :
        Commit(tableData # NoTable,
               [Env EXCEPT !.q.tableType = v, !.q.tableData = NoTable],
               "tab", TRUE, 0)
    /\ UNCHANGED startAwaiting

\* Create New Table button of the finished view
CreateNewTable3 ==
    /\ variant = "three" /\ Idle /\ isFinished3
    /\ Commit(TRUE,
              [Env EXCEPT !.q.tableData = NoTable, !.q.currentPhase = "prep"],
              "newTable", TRUE, 0)
    /\ UNCHANGED startAwaiting

----------------------------------------------------------------------------
(* The component after mounting: initial useState values, no timer *)

Init ==
    /\ variant \in {"two", "three"}
    /\ tableType = "co2"
    /\ tableData = NoTable
    /\ isSessionActive = FALSE
    /\ currentRoundIndex = 0
    /\ currentPhase = IF variant = "two" THEN "ready" ELSE "prep"
    /\ timeRemaining = 0
    /\ showStopModal = FALSE
    /\ showAlert = FALSE
    /\ timers = {}
    /\ timerId = 0
    /\ pending = << >>
    /\ startAwaiting = 0
    /\ cues = << >>
    /\ ticks = 0
    /\ zeroEvents = 0
    /\ advances = 0
    /\ lastEvent = "mount"
    /\ lastInput = 0
    /\ tickCues = 0
    /\ startCues = 0
    /\ endCues = 0
    /\ entered = 0
    /\ pre = Snapshot

Next ==
    \/ Rerender
    \/ TimerFire2
    \/ onSubmit2
    \/ AlertOk2
    \/ startSession2
    \/ startSessionResume2
    \/ OpenStopModal2
    \/ CancelStop2
    \/ stopSession2
    \/ handleTabChange2
    \/ TimerFire3
    \/ onSubmit3
    \/ startSession3
    \/ OpenStopModal3
    \/ CancelStop3
    \/ stopSession3
    \/ onValueChange3
    \/ CreateNewTable3

Spec == Init /\ [][Next]_vars


----------------------------------------------------------------------------
(* An uninterrupted session: a table is submitted once, the session is      *)
(* started, and from then on only the timer and React act.  The session is  *)
(* never stopped or reset and no second table is submitted.  A pending      *)
(* timeout fires, React commits queued state, and the awaited audio start   *)
(* resolves: these are weakly fair.                                         *)

SessionNext ==
    \/ Rerender
    \/ TimerFire2
    \/ tableData = NoTable /\ onSubmit2
    \/ AlertOk2
    \/ tableData = NoTable /\ startAwaiting = 0 /\ handleTabChange2
    \/ startSession2
    \/ startSessionResume2
    \/ TimerFire3
    \/ tableData = NoTable /\ onSubmit3
    \/ startSession3

SessionSpec ==
    /\ Init
    /\ [][SessionNext]_vars
    /\ WF_vars(Rerender)
    /\ WF_vars(TimerFire2)
    /\ WF_vars(startSessionResume2)
    /\ WF_vars(TimerFire3)

----------------------------------------------------------------------------
(* The table generators on their own: a personal best is drawn, and either  *)
(* generator is applied to it.  No controller is mounted.                   *)

GenInit ==
    /\ variant = "none"
    /\ lastInput \in 1..MaxGenPB
    /\ tableType = "co2"
    /\ tableData = NoTable
    /\ isSessionActive = FALSE
    /\ currentRoundIndex = 0
    /\ currentPhase = "ready"
    /\ timeRemaining = 0
    /\ showStopModal = FALSE
    /\ showAlert = FALSE
    /\ timers = {}
    /\ timerId = 0
    /\ pending = << >>
    /\ startAwaiting = 0
    /\ cues = << >>
    /\ ticks = 0
    /\ zeroEvents = 0
    /\ advances = 0
    /\ lastEvent = "input"
    /\ tickCues = 0
    /\ startCues = 0
    /\ endCues = 0
    /\ entered = 0
    /\ pre = Snapshot

Generated(type, table) ==
    /\ variant = "none"
    /\ tableType' = type
    /\ tableData' = table
    /\ lastEvent' = "generate"
    /\ UNCHANGED <<variant, isSessionActive, currentRoundIndex, currentPhase,
                   timeRemaining, showStopModal, showAlert, timers, timerId,
                   pending, startAwaiting, cues, ticks, zeroEvents, advances,
                   lastInput, tickCues, startCues, endCues, entered, pre>>

GenerateCo2 == Generated("co2", generateCo2Table(lastInput))

GenerateO2 == Generated("o2", generateO2Table(lastInput))

GenNext == GenerateCo2 \/ GenerateO2

GenSpec == GenInit /\ [][GenNext]_vars

----------------------------------------------------------------------------
(* Claims *)

Running == isSessionActive /\ tableData # NoTable
FirstRound == tableData[1]
InitialPhase == IF variant = "two" THEN "ready" ELSE "prep"

\* C1: two-phase controller: a started session on a bound 8-round table that is
\* not stopped, reset or resubmitted eventually reaches finished with
\* active = false, and the step to finished is taken exactly from hold of round
\* index 7 with timeRemaining = 0.
C1_SessionFinishes ==
    /\ [](variant = "two" /\ Running /\ Len(tableData) = NUM_ROUNDS
            => <>(currentPhase = "finished" /\ ~isSessionActive))
    /\ [][variant = "two" /\ currentPhase' = "finished" /\ currentPhase # "finished"
            => /\ currentPhase = "hold"
               /\ currentRoundIndex = NUM_ROUNDS - 1
               /\ timeRemaining = 0
               /\ ~isSessionActive']_vars
    /\ [](variant = "two" /\ Running /\ currentPhase = "hold"
            /\ currentRoundIndex = NUM_ROUNDS - 1 /\ timeRemaining = 0
            => pending # << >> /\ pending[1].currentPhase = "finished")

C1_Witness ==
    /\ variant = "two" /\ currentPhase = "finished" /\ ~isSessionActive
    /\ tableData # NoTable /\ Len(tableData) = NUM_ROUNDS
    /\ ticks > 0 /\ lastEvent = "render"

\* C2: in a started session on a table whose first round has prep > 0 and
\* hold > 0, the phase is prep of round index 0 while fewer than T[0].prep ticks
\* have fired, and once T[0].prep ticks have fired and React has settled the
\* phase is hold of round index 0 with timeRemaining = T[0].hold.
C2_PrepThenHold ==
    (Running /\ FirstRound.prep > 0 /\ FirstRound.hold > 0) =>
        /\ ticks < FirstRound.prep =>
                currentPhase = "prep" /\ currentRoundIndex = 0
        /\ ticks = FirstRound.prep /\ Idle =>
                /\ currentPhase = "hold" /\ currentRoundIndex = 0
                /\ timeRemaining = FirstRound.hold

\* C3: right after start on a bound table the session is active in prep of
\* round index 0 with timeRemaining = table[0].prep; no phase boundary is taken
\* before the first tick, and the first tick counts down that prep.
C3_StartLoadsPrep ==
    /\ lastEvent = "start" /\ tableData # NoTable =>
            /\ isSessionActive /\ currentRoundIndex = 0
            /\ currentPhase = "prep" /\ timeRemaining = FirstRound.prep
    /\ Running /\ ticks = 0 /\ FirstRound.prep > 0 => advances = 0
    /\ Running /\ ticks = 1 /\ lastEvent = "tick" /\ FirstRound.prep > 0 =>
            /\ currentPhase = "prep" /\ currentRoundIndex = 0
            /\ timeRemaining = FirstRound.prep - 1

\* C4: since the start of the session, the phase-boundary steps taken never
\* outnumber the times timeRemaining was brought to 0 while active (by a tick,
\* or by loading a duration of 0), and once React has settled the two numbers
\* are equal: one step per zero, none without one.
C4_OneAdvancePerZero ==
    /\ advances <= zeroEvents
    /\ Idle => advances = zeroEvents

\* C5: two-phase advancePhase on a bound table: prep of round i goes to hold of
\* round i; hold of round i < last goes to prep of round i + 1; hold of the last
\* round goes to finished with active = false; any other phase changes nothing.
C5_AdvancePhase ==
    (variant = "two" /\ tableData # NoTable) =>
        LET n == AdvancePhase2(S, S)
            last == Len(tableData) - 1
        IN  /\ currentPhase = "prep" =>
                    n = [S EXCEPT !.currentPhase = "hold"]
            /\ currentPhase = "hold" /\ currentRoundIndex < last =>
                    n = [S EXCEPT !.currentPhase = "prep",
                                  !.currentRoundIndex = currentRoundIndex + 1]
            /\ currentPhase = "hold" /\ currentRoundIndex = last =>
                    n = [S EXCEPT !.currentPhase = "finished",
                                  !.isSessionActive = FALSE]
            /\ currentPhase \notin {"prep", "hold"} => n = S
            /\ (Running /\ timeRemaining = 0 /\ currentPhase \in {"prep", "hold"}) =>
                    /\ pending # << >>
                    /\ pending[1].currentPhase = n.currentPhase
                    /\ pending[1].currentRoundIndex = n.currentRoundIndex
                    /\ pending[1].isSessionActive = n.isSessionActive

C5_Witness ==
    /\ variant = "two" /\ Running /\ currentPhase = "hold" /\ timeRemaining = 0
    /\ currentRoundIndex = Len(tableData) - 1 /\ advances > 2
    /\ pending # << >> /\ pending[1].currentPhase = "finished"

\* C6: stop leaves the session inactive at round index 0, in the controller's
\* initial phase, with timeRemaining = 0, whatever state it was called in.
C6_StopResets ==
    lastEvent = "stop" =>
        /\ ~isSessionActive /\ currentRoundIndex = 0
        /\ currentPhase = InitialPhase /\ timeRemaining = 0
        /\ pending = << >>

C6_Witness ==
    /\ lastEvent = "stop" /\ pre.isSessionActive /\ pre.currentPhase = "hold"
    /\ pre.armed = 1

\* C7: while the session is active in prep, hold or recovery of a valid round,
\* 0 <= timeRemaining <= the duration of that phase in that round.
C7_TimeWithinPhase ==
    (/\ Running /\ currentPhase \in {"prep", "hold", "recovery"}
     /\ RoundAt(tableData, currentRoundIndex) # << >>) =>
        /\ 0 <= timeRemaining
        /\ timeRemaining <=
                PhaseDuration(tableData[currentRoundIndex + 1], currentPhase)

\* C8: while active in a phase other than finished and ready, a table is bound
\* and currentRoundIndex is a valid index into it.
C8_RoundIndexValid ==
    (isSessionActive /\ currentPhase \notin {"finished", "ready"}) =>
        /\ tableData # NoTable
        /\ 0 <= currentRoundIndex /\ currentRoundIndex < Len(tableData)

\* C9: at most one wake-up is pending, exactly one while the session is active
\* with timeRemaining > 0, and timerId.current refers to it.
C9_OneWakeUp ==
    /\ Cardinality(timers) <= 1
    /\ isSessionActive /\ timeRemaining > 0 => Cardinality(timers) = 1
    /\ \A x \in timers : x.h = timerId /\ x.t = timeRemaining

C9_Witness ==
    /\ lastEvent = "tick" /\ isSessionActive /\ timeRemaining > 0
    /\ Cardinality(timers) = 1 /\ pre.armed = 1

\* C10: after stop, a table submission or a tab change no wake-up is pending and
\* the session is inactive; none is pending while the session is inactive, and
\* a timer callback only ever runs in an active session.
C10_NoStaleWakeUp ==
    /\ lastEvent \in {"stop", "submit", "tab"} =>
            timers = {} /\ ~isSessionActive /\ pending = << >>
    /\ ~isSessionActive => timers = {}
    /\ lastEvent = "tick" => pre.isSessionActive /\ pre.armed = 1

C10_Witness ==
    /\ lastEvent \in {"stop", "tab"} /\ pre.isSessionActive /\ pre.armed = 1
    /\ timers = {}

\* C11: whenever currentPhase = finished the session is inactive, no wake-up is
\* pending and no state update is queued, so no tick and no phase-boundary step
\* can run; and no timer callback or re-render taken from a finished state
\* changes timeRemaining, currentPhase or currentRoundIndex.
C11_FinishedIsQuiet ==
    /\ [](currentPhase = "finished" =>
            ~isSessionActive /\ timers = {} /\ pending = << >>)
    /\ [][currentPhase = "finished" /\ lastEvent' \in {"tick", "render"} =>
            UNCHANGED <<timeRemaining, currentPhase, currentRoundIndex>>]_vars

C11_Witness ==
    /\ currentPhase = "finished" /\ lastEvent = "render"
    /\ pre.isSessionActive /\ pre.currentPhase \in {"hold", "recovery"}
    /\ ticks > 0

C13_StartWithoutTable ==
    [][lastEvent' = "startNoTable" =>
            /\ tableData = NoTable /\ ~isSessionActive'
            /\ cues' = << >> /\ timers' = {}
            /\ UNCHANGED <<tableData, tableType, isSessionActive, currentPhase,
                           currentRoundIndex, timeRemaining, showStopModal,
                           showAlert, timers, timerId, pending, startAwaiting>>]_vars

C13_Witness ==
    /\ lastEvent = "startNoTable" /\ tableData = NoTable /\ ~isSessionActive
    /\ timers = {} /\ cues = << >>

C15_Co2Table ==
    (variant = "none" /\ lastEvent = "generate" /\ tableType = "co2") =>
        LET pb == lastInput
            T == tableData
            hold == T[1].hold
        IN  /\ Len(T) = 8
            /\ \A i \in 1..8 : T[i].round = i /\ T[i].hold = hold
            /\ \E r \in 0..pb :
                    /\ 10 * r - 5 <= 6 * pb /\ 6 * pb < 10 * r + 5
                    /\ hold = IF r > 30 THEN r ELSE 30
            /\ \A i \in 1..8 :
                    LET lin == hold + 75 - (i - 1) * 15
                    IN  T[i].prep = IF lin > 30 THEN lin ELSE 30
            /\ \A i \in 1..7 : T[i + 1].prep <= T[i].prep
            /\ \A i \in 1..8 : T[i].prep >= 30
            /\ pb = 90 => /\ T[1].prep = 129 /\ T[1].hold = 54
                           /\ T[8].prep = 30 /\ T[8].hold = 54

C15_Witness ==
    /\ variant = "none" /\ lastEvent = "generate" /\ tableType = "co2"
    /\ lastInput = 90 /\ tableData[1].prep = 129 /\ tableData[8].prep = 30

\* C16: for a positive integer personal best pb, generateO2Table(pb) has 8 rounds
\* numbered 1..8, all with prep = 120; the first hold is the larger of 45 and
\* pb / 2 rounded to the nearest integer, halves up; round i has hold = first
\* hold + (i - 1) * 10, so hold grows by exactly 10 from one round to the next;
\* for pb = 90 round 1 has hold 45 and round 8 has hold 115.
C16_O2Table ==
    (variant = "none" /\ lastEvent = "generate" /\ tableType = "o2") =>
        LET pb == lastInput
            T == tableData
            startHold == T[1].hold
        IN  /\ Len(T) = 8
            /\ \A i \in 1..8 : T[i].round = i /\ T[i].prep = 120
            /\ \E r \in 0..pb :
                    /\ 2 * r \in {pb, pb + 1}
                    /\ startHold = IF r > 45 THEN r ELSE 45
            /\ \A i \in 1..8 : T[i].hold = startHold + (i - 1) * 10
            /\ \A i \in 1..7 : T[i + 1].hold = T[i].hold + 10
            /\ pb = 90 => T[1].hold = 45 /\ T[8].hold = 115

C16_Witness ==
    /\ variant = "none" /\ lastEvent = "generate" /\ tableType = "o2"
    /\ lastInput = 91 /\ tableData[1].hold = 46 /\ tableData[8].hold = 116

\* A phase-boundary step of the three-phase controller is due: the committed
\* render is active on a bound table with timeRemaining = 0, and the boundary
\* effect has queued the step
BoundaryDue3 ==
    /\ variant = "three" /\ Running /\ timeRemaining = 0
    /\ currentPhase \in {"prep", "hold", "recovery"}

\* the queued step leads to phase ph of round index i with that phase's duration
StepsTo3(ph, i) ==
    /\ pending # << >>
    /\ pending[1].currentPhase = ph /\ pending[1].currentRoundIndex = i
    /\ pending[1].isSessionActive
    /\ pending[1].timeRemaining = PhaseDuration(tableData[i + 1], ph)
    /\ pending[1].tableData = tableData

StepsToFinished3 ==
    /\ pending # << >>
    /\ pending[1].currentPhase = "finished" /\ ~pending[1].isSessionActive
    /\ pending[1].tableData = tableData

\* C17 (as stated): three-phase controller: the phase-boundary step goes from
\* prep to hold of the same round, from hold to recovery of the same round, from
\* recovery of round index i to prep of round index i + 1, and from recovery of
\* the last round to finished with active = false; after a non-finishing step
\* timeRemaining is the duration of the new phase in the new round.
C17_PhaseOrder ==
    BoundaryDue3 =>
        LET i == currentRoundIndex
            last == Len(tableData) - 1
        IN  /\ currentPhase = "prep" => StepsTo3("hold", i)
            /\ currentPhase = "hold" => StepsTo3("recovery", i)
            /\ currentPhase = "recovery" /\ i < last => StepsTo3("prep", i + 1)
            /\ currentPhase = "recovery" /\ i = last => StepsToFinished3

\* C17 (amended): as stated, except that hold goes to recovery of the same
\* round only when that round's recovery value is not 0; when it is 0 the step
\* from hold goes to finished with active = false.
C17_PhaseOrderAmended ==
    BoundaryDue3 =>
        LET i == currentRoundIndex
            last == Len(tableData) - 1
        IN  /\ currentPhase = "prep" => StepsTo3("hold", i)
            /\ currentPhase = "hold" /\ tableData[i + 1].recovery # 0 =>
                    StepsTo3("recovery", i)
            /\ currentPhase = "hold" /\ tableData[i + 1].recovery = 0 =>
                    StepsToFinished3
            /\ currentPhase = "recovery" /\ i < last => StepsTo3("prep", i + 1)
            /\ currentPhase = "recovery" /\ i = last => StepsToFinished3

C17_Witness ==
    /\ BoundaryDue3 /\ currentPhase = "recovery" /\ currentRoundIndex = 0
    /\ Len(tableData) > 1 /\ ticks > 2 /\ StepsTo3("prep", 1)

\* C18 (as stated): three-phase controller: when hold of round index i is about
\* to end and the recovery value of the next round (index i + 1) is 0, the
\* session goes directly to finished with active = false; when that value is
\* not 0 the session enters recovery of round index i.
C18_FinishMarker ==
    (/\ BoundaryDue3 /\ currentPhase = "hold"
     /\ currentRoundIndex + 1 < Len(tableData)) =>
        LET i == currentRoundIndex
        IN  IF tableData[i + 2].recovery = 0
            THEN StepsToFinished3
            ELSE StepsTo3("recovery", i)

\* C18 (amended): the recovery value tested is that of the round whose hold is
\* ending (index i, the round the next phase would belong to): when it is 0 the
\* session goes directly to finished with active = false, whether or not
\* further rounds follow; when it is not 0 the session enters recovery of
\* round index i.
C18_FinishMarkerAmended ==
    (BoundaryDue3 /\ currentPhase = "hold") =>
        LET i == currentRoundIndex
        IN  IF tableData[i + 1].recovery = 0
            THEN StepsToFinished3
            ELSE StepsTo3("recovery", i)

C18_Witness ==
    /\ BoundaryDue3 /\ currentPhase = "hold"
    /\ tableData[currentRoundIndex + 1].recovery = 0
    /\ currentRoundIndex + 1 < Len(tableData)
    /\ tableData[currentRoundIndex + 2].recovery # 0
    /\ StepsToFinished3

\* C19: a timer callback that runs while the session is active with
\* timeRemaining > 0 lowers timeRemaining by exactly 1 and leaves currentPhase,
\* currentRoundIndex, active and the table as they were; timeRemaining is never
\* negative; and neither a timer callback nor a re-render that carries out a
\* phase-boundary step changes the bound table.
C19_TickDecrements ==
    /\ [](timeRemaining >= 0)
    /\ [][(lastEvent' = "tick" /\ isSessionActive /\ timeRemaining > 0) =>
            /\ timeRemaining' = timeRemaining - 1
            /\ UNCHANGED <<currentPhase, currentRoundIndex, isSessionActive,
                           tableData, tableType>>]_vars
    /\ [][lastEvent' \in {"tick", "render"} => tableData' = tableData]_vars

C19_Witness ==
    /\ lastEvent = "tick" /\ isSessionActive /\ tableData # NoTable
    /\ timeRemaining > 0 /\ ticks > 1 /\ currentPhase = "hold"

\* the phase the session is in has a duration of at least 4 in the current round
LongPhase ==
    /\ Running /\ currentPhase \in {"prep", "hold", "recovery"}
    /\ RoundAt(tableData, currentRoundIndex) # << >>
    /\ PhaseDuration(tableData[currentRoundIndex + 1], currentPhase) >= 4

\* C20: a timer callback emits a tick cue exactly when the timeRemaining it
\* decrements satisfies 1 < timeRemaining <= 4 (so none on the decrement from 1
\* to 0), with or without the cue it lowers timeRemaining by 1 and changes no
\* other session state, no other step emits a tick cue, and a phase of duration
\* at least 4 has emitted exactly three tick cues when its phase-boundary step
\* is taken.
C20_TickCue ==
    /\ [][lastEvent' = "tick" =>
            /\ TickCount(cues') =
                    (IF 1 < timeRemaining /\ timeRemaining <= 4 THEN 1 ELSE 0)
            /\ timeRemaining' = timeRemaining - 1
            /\ UNCHANGED <<currentPhase, currentRoundIndex, isSessionActive,
                           tableData, tableType>>]_vars
    /\ [][lastEvent' # "tick" => TickCount(cues') = 0]_vars
    /\ [](LongPhase /\ timeRemaining = 0 /\ pending # << >>
            /\ pending[1].currentPhase # currentPhase => tickCues = 3)

\* C20 restricted to phases that were counted down: the phase-boundary step
\* follows a timer callback that brought timeRemaining to 0
C20_TickCueCounted ==
    /\ [][lastEvent' = "tick" =>
            /\ TickCount(cues') =
                    (IF 1 < timeRemaining /\ timeRemaining <= 4 THEN 1 ELSE 0)
            /\ timeRemaining' = timeRemaining - 1
            /\ UNCHANGED <<currentPhase, currentRoundIndex, isSessionActive,
                           tableData, tableType>>]_vars
    /\ [][lastEvent' # "tick" => TickCount(cues') = 0]_vars
    /\ [](LongPhase /\ timeRemaining = 0 /\ lastEvent = "tick" => tickCues = 3)

\* C22: whatever the personal best, the table either generator returns has
\* exactly 8 rounds, and the round numbers are 1, 2, ..., 8 in that order.
C22_EightRounds ==
    (variant = "none" /\ lastEvent = "generate") =>
        /\ Len(tableData) = 8
        /\ DOMAIN tableData = 1..8
        /\ [k \in 1..8 |-> tableData[k].round] = <<1, 2, 3, 4, 5, 6, 7, 8>>

C22_Witness ==
    /\ variant = "none" /\ lastEvent = "generate" /\ tableType = "o2"
    /\ lastInput = 1 /\ Len(tableData) = 8 /\ tableData[8].round = 8

\* C23 (as stated): stop leaves the table binding unchanged: the table bound
\* before stop is bound, with the same rounds, after it.
C23_StopKeepsTable ==
    [][lastEvent' = "stop" => tableData' = tableData]_vars

\* C23 (amended): in the three-phase controller stop leaves the table binding
\* unchanged, and with a table bound the start panel is available again right
\* after it; in the two-phase controller stopSession also clears the binding,
\* so no table is bound after stop.
C23_StopKeepsTableAmended ==
    /\ [][lastEvent' = "stop" =>
            IF variant = "three" THEN tableData' = tableData
            ELSE tableData' = NoTable]_vars
    /\ [](variant = "three" /\ lastEvent = "stop" /\ tableData # NoTable =>
            Idle /\ Interactive3 /\ ~isSessionActive)

C23_Witness ==
    /\ variant = "three" /\ lastEvent = "stop" /\ tableData # NoTable
    /\ Len(tableData) > 1 /\ pre.isSessionActive /\ pre.currentPhase = "hold"

\* C24: two-phase controller: whatever happens between the table check of
\* startSession and its activation after the awaited audio start (a tab change
\* or a stop clearing the table), the session is never active with no table
\* bound.
C24_NoActiveSessionWithoutTable ==
    variant = "two" => ~(isSessionActive /\ tableData = NoTable)

RECURSIVE TotalDuration(_, _)
\* the sum of prep + hold over the first n rounds of table T
TotalDuration(T, n) ==
    IF n = 0 THEN 0 ELSE T[n].prep + T[n].hold + TotalDuration(T, n - 1)

\* C25: two-phase controller: when an uninterrupted session on table T has
\* reached finished, the timer callbacks that ran since start (each lowering
\* timeRemaining by one second) number the sum over all rounds of prep + hold.
C25_EveryPhaseCountedDown ==
    (variant = "two" /\ currentPhase = "finished" /\ tableData # NoTable) =>
        ticks = TotalDuration(tableData, Len(tableData))

\* C26: three-phase controller: on a non-empty table of non-negative integer
\* durations (phases of duration 0 included) a started session that is left to
\* run eventually reaches finished with active = false, given that a pending
\* timeout fires and React commits queued state; and whenever the session is
\* active with timeRemaining = 0 the next phase-boundary step is queued, so it
\* never rests there.
C26_ThreePhaseTerminates ==
    /\ [](variant = "three" /\ Running
            => <>(currentPhase = "finished" /\ ~isSessionActive))
    /\ [](variant = "three" /\ isSessionActive /\ timeRemaining = 0
            => pending # << >> /\ pending[1] # S)
    /\ [](variant = "three" /\ isSessionActive /\ timeRemaining > 0
            => timers # {})

C26_Witness ==
    /\ variant = "three" /\ currentPhase = "finished" /\ ~isSessionActive
    /\ tableData # NoTable /\ Len(tableData) > 1
    /\ tableData[1].prep = 0 /\ tableData[1].hold > 0 /\ ticks > 0

RECURSIVE CueOrderOk(_, _)
\* the start and end cues of cs alternate, beginning with an end cue when a
\* phase is open (its start cue was emitted, its end cue not yet) and with a
\* start cue otherwise
CueOrderOk(open, cs) ==
    IF cs = << >> THEN TRUE
    ELSE IF Head(cs) = "start" THEN ~open /\ CueOrderOk(TRUE, Tail(cs))
    ELSE IF Head(cs) = "end" THEN open /\ CueOrderOk(FALSE, Tail(cs))
    ELSE CueOrderOk(open, Tail(cs))

\* C21: since the start of a session, the phase-start cues emitted number the
\* phases entered (one more while the step into the next phase is queued), the
\* end-of-phase cues emitted never outnumber the times timeRemaining was brought
\* to 0 and equal them once React has settled (so none for a phase that has not
\* run down, none at start), and start and end cues alternate: the end cue of a
\* phase comes before the start cue of the next.
C21_CuePerPhase ==
    /\ [](entered <= startCues /\ startCues <= entered + 1)
    /\ [](Idle => startCues = entered)
    /\ [](endCues <= zeroEvents)
    /\ [](Idle => endCues = zeroEvents)
    /\ [][CueOrderOk(lastEvent' \notin {"start", "stop", "submit", "tab", "newTable"}
                        /\ startCues > endCues, cues')]_vars

=============================================================================
